---- MODULE Spec2Model ----
(***************************************************************************)
(* A model of the scientific calculator of src/gh.py: the text rewriting   *)
(* and the restricted evaluation of safe_eval, and the handlers of the     *)
(* SciCalculator window that call it.                                      *)
(*                                                                         *)
(* A text (a Python str) is a sequence of atoms.  An atom is one character *)
(* ("1", "%", "(", a space, ...), or, where the program never looks inside *)
(* it, a whole word of letters ("sin", "lambda", "__class__") or a whole   *)
(* quoted string literal ("'x'").                                          *)
(***************************************************************************)
EXTENDS Integers, Sequences, FiniteSets, TLC

VARIABLES
    ALLOWED_NAMES,     \* gh.py:25-37, the process-wide mapping name -> value
    expression,        \* SciCalculator.expression (tk.StringVar), a text
    history,           \* SciCalculator.history, newest first
    history_listbox,   \* the items shown by SciCalculator.history_listbox
    angle_mode_var,    \* SciCalculator.angle_mode_var, "rad" or "deg"
    dialog,            \* the messagebox the last handler showed, or NoDialog
    pc,                \* where the safe_eval call in progress stands
    expr,              \* safe_eval's expr (rewritten in place by lines 44-53)
    angle_mode,        \* safe_eval's angle_mode
    local_names,       \* safe_eval's local_names
    code,              \* safe_eval's code object (the parsed expression)
    outcome,           \* how the last safe_eval call ended
    trail,             \* what the call in progress has evaluated and looked up
    raw,               \* a text handed to the rewriting of lines 44-53
    canonical,         \* the rewriting of raw
    recanonical,       \* the rewriting of canonical
    stage              \* how far the rewriting of raw has gone

vars == <<ALLOWED_NAMES, expression, history, history_listbox, angle_mode_var,
          dialog, pc, expr, angle_mode, local_names, code, outcome, trail,
          raw, canonical, recanonical, stage>>

guiVars == <<expression, history, history_listbox, angle_mode_var, dialog>>
callVars == <<pc, expr, angle_mode, local_names, code, outcome, trail>>
preVars == <<raw, canonical, recanonical, stage>>

(***************************************************************************)
(* Bounds of the model.                                                    *)
(***************************************************************************)
MaxRawLen == 3        \* longest text over RawAlphabet handed to the rewriting alone
MaxPercentLen == 4    \* longest text over PercentAlphabet handed to it
MaxExprLen == 3       \* longest text the buttons and keys may build
MaxHistory == 2       \* most entries the history may hold

(***************************************************************************)
(* Character classes of the two regular expressions (gh.py:49, gh.py:53).  *)
(***************************************************************************)
Digit == {"0", "1", "2", "3", "4", "5", "6", "7", "8", "9"}
HSpace == {" ", "\t"}                       \* [ \t]
Space == {" ", "\t", "\n", "\r", "\f"}      \* \s

RECURSIVE Flatten(_)
Flatten(ss) == IF ss = <<>> THEN <<>> ELSE Head(ss) \o Flatten(Tail(ss))

\* str.replace(old, new) for a one-character old
Replace(s, old, new) ==
    Flatten([i \in 1..Len(s) |-> IF s[i] = old THEN new ELSE <<s[i]>>])

\* the first index >= i of s whose character is not in class (Len(s)+1 if none)
RECURSIVE Skip(_, _, _)
Skip(s, i, class) ==
    IF i <= Len(s) /\ s[i] \in class THEN Skip(s, i + 1, class) ELSE i

\* \d+(?:\.\d+)? matched at i: the index after the match, or i when it fails.
\* Both quantifiers are greedy and what follows the group in either pattern
\* ([ \t], \s or %) is no digit and no dot, so only the longest match counts.
LiteralEnd(s, i) ==
    LET k == Skip(s, i, Digit)
        f == IF k > i /\ k <= Len(s) /\ s[k] = "." THEN Skip(s, k + 1, Digit) ELSE k
    IN  IF f > k + 1 THEN f ELSE k

Slice(s, i, j) == IF j < i THEN <<>> ELSE SubSeq(s, i, j)

\* gh.py:48-52: re.sub of (?P<a>LITERAL)[ \t]*%[ \t]*(?=(LITERAL|\(), scanning
\* from index i; each match is replaced by "(a/100)*"
RECURSIVE PercentOfFrom(_, _)
PercentOfFrom(s, i) ==
    IF i > Len(s) THEN <<>>
    ELSE LET e == LiteralEnd(s, i)
             p == Skip(s, e, HSpace)
             q == Skip(s, p + 1, HSpace)
             hit == /\ e > i
                    /\ p <= Len(s) /\ s[p] = "%"
                    /\ q <= Len(s) /\ (s[q] \in Digit \/ s[q] = "(")
         IN  IF hit
             THEN <<"(">> \o Slice(s, i, e - 1) \o <<"/", "1", "0", "0", ")", "*">>
                  \o PercentOfFrom(s, q)
             ELSE <<s[i]>> \o PercentOfFrom(s, i + 1)

PercentOf(s) == PercentOfFrom(s, 1)

\* gh.py:53: re.sub of (?P<a>LITERAL)\s*%, each match replaced by "(a/100)"
RECURSIVE PercentAloneFrom(_, _)
PercentAloneFrom(s, i) ==
    IF i > Len(s) THEN <<>>
    ELSE LET e == LiteralEnd(s, i)
             p == Skip(s, e, Space)
             hit == e > i /\ p <= Len(s) /\ s[p] = "%"
         IN  IF hit
             THEN <<"(">> \o Slice(s, i, e - 1) \o <<"/", "1", "0", "0", ")">>
                  \o PercentAloneFrom(s, p + 1)
             ELSE <<s[i]>> \o PercentAloneFrom(s, i + 1)

\* the second substitution with the replacement a/100, its parentheses left out
RECURSIVE PercentAloneBareFrom(_, _)
PercentAloneBareFrom(s, i) ==
    IF i > Len(s) THEN <<>>
    ELSE IF LiteralEnd(s, i) > i /\ Skip(s, LiteralEnd(s, i), Space) <= Len(s)
            /\ s[Skip(s, LiteralEnd(s, i), Space)] = "%"
         THEN Slice(s, i, LiteralEnd(s, i) - 1) \o <<"/", "1", "0", "0">>
              \o PercentAloneBareFrom(s, Skip(s, LiteralEnd(s, i), Space) + 1)
         ELSE <<s[i]>> \o PercentAloneBareFrom(s, i + 1)
PercentAloneBare(s) == PercentAloneBareFrom(s, 1)

PercentAlone(s) == PercentAloneFrom(s, 1)

\* gh.py:44-46
Glyphs(s) ==
    Replace(Replace(Replace(Replace(s, "×", <<"*">>), "÷", <<"/">>),
                    "^", <<"*", "*">>), "π", <<"p", "i">>)

\* gh.py:44-53, the whole rewriting
Preprocess(s) == PercentAlone(PercentOf(Glyphs(s)))


(***************************************************************************)
(* Python values.  Every value is a record of the same shape: t is the     *)
(* type, and s, n, d, xs, fn hold what that type needs.  A float is the    *)
(* exact rational n/d (rounding is not modelled), or, when s names a math  *)
(* function or an operator, the float that function returns on xs (sin,    *)
(* exp, ... are left uninterpreted).                                       *)
(***************************************************************************)
Node(k, s, n, d, xs) == [k |-> k, s |-> s, n |-> n, d |-> d, xs |-> xs]
NoCode == Node("none", "", 0, 1, <<>>)

Val(t, s, n, d, xs, fn) == [t |-> t, s |-> s, n |-> n, d |-> d, xs |-> xs, fn |-> fn]

RECURSIVE GCD(_, _)
GCD(a, b) == IF b = 0 THEN a ELSE GCD(b, a % b)
Abs(n) == IF n < 0 THEN -n ELSE n

IntV(n) == Val("int", "", n, 1, <<>>, NoCode)
FloatV(n, d) ==
    LET g == GCD(Abs(n), Abs(d))
        sgn == IF d < 0 THEN -1 ELSE 1
    IN  Val("float", "", sgn * (n \div g), sgn * (d \div g), <<>>, NoCode)
SymV(f, args) == Val("float", f, 0, 1, args, NoCode)
StrV(s) == Val("str", s, 0, 1, <<>>, NoCode)
TupleV(xs) == Val("tuple", "", 0, 1, xs, NoCode)
NoneV == Val("NoneType", "", 0, 1, <<>>, NoCode)
BuiltinV(name) == Val("builtin_function_or_method", name, 0, 1, <<>>, NoCode)
ModuleV(name) == Val("module", name, 0, 1, <<>>, NoCode)
TypeV(name) == Val("type", name, 0, 1, <<>>, NoCode)
DictV(ref) == Val("dict", ref, 0, 1, <<>>, NoCode)
FrameV(depth) == Val("frame", "", depth, 1, <<>>, NoCode)
ObjectV(cls) == Val(cls, "", 0, 1, <<>>, NoCode)
MethodV(name, self) == Val("method", name, 0, 1, <<self>>, NoCode)
\* the lambda of make_forward / make_inverse (gh.py:57-67): it has captured
\* fn (a function of module math) and angle_mode
WrapperV(fn, kind, mode) == Val("function", fn, 0, 1, <<StrV(kind), StrV(mode)>>, NoCode)
\* a lambda of the expression itself: its code, and the variables it closes over
LambdaV(node, cells) == Val("function", "<lambda>", 0, 1, cells, node)
Cell(name, v) == Val("cell", name, 0, 1, <<v>>, NoCode)

IsNumber(v) == v.t \in {"int", "float"}
IsExact(v) == IsNumber(v) /\ v.s = ""
IsWrapper(v) == v.t = "function" /\ v.fn.k = "none"

(***************************************************************************)
(* compile(expr, '<string>', 'eval'), gh.py:79: the tokens of a text.      *)
(* Number literals with an exponent, a radix prefix, an underscore or an   *)
(* imaginary suffix, and the keywords and operators of Python other than   *)
(* those below, occur in none of the texts the model compiles and are not  *)
(* tokens of it.                                                           *)
(***************************************************************************)
Punct == {"(", ")", ",", ".", ":", "=", "+", "-", "*", "/", "%", "[", "]"}
StringLiterals ==
    {"'x'", "'os'", "'a'", "'pi'", "'ALLOWED_NAMES'", "'sys'", "'angle_mode'"}
StringOf(atom) ==
    CASE atom = "'x'" -> "x"
      [] atom = "'os'" -> "os"
      [] atom = "'a'" -> "a"
      [] atom = "'pi'" -> "pi"
      [] atom = "'ALLOWED_NAMES'" -> "ALLOWED_NAMES"
      [] atom = "'sys'" -> "sys"
      [] atom = "'angle_mode'" -> "angle_mode"
      [] OTHER -> ""
\* atoms that are neither part of a name nor of a number
NonWord == Digit \cup Space \cup Punct \cup StringLiterals \cup {"×", "÷", "^", "π"}
IsWord(c) == c \notin NonWord

DigitVal(c) ==
    CASE c = "0" -> 0 [] c = "1" -> 1 [] c = "2" -> 2 [] c = "3" -> 3
      [] c = "4" -> 4 [] c = "5" -> 5 [] c = "6" -> 6 [] c = "7" -> 7
      [] c = "8" -> 8 [] c = "9" -> 9 [] OTHER -> 0

RECURSIVE NumVal(_)
NumVal(ds) ==
    IF ds = <<>> THEN 0
    ELSE 10 * NumVal(SubSeq(ds, 1, Len(ds) - 1)) + DigitVal(ds[Len(ds)])

RECURSIVE Pow(_, _)
Pow(b, e) == IF e = 0 THEN 1 ELSE b * Pow(b, e - 1)

RECURSIVE Join(_)
Join(ws) == IF ws = <<>> THEN "" ELSE Head(ws) \o Join(Tail(ws))

\* the first index >= i of s that continues no name (a letter atom or a digit)
RECURSIVE SkipName(_, _)
SkipName(s, i) ==
    IF i <= Len(s) /\ (IsWord(s[i]) \/ s[i] \in Digit) THEN SkipName(s, i + 1) ELSE i

Token(k, s, n, d) == [k |-> k, s |-> s, n |-> n, d |-> d]
BadToken == Token("bad", "", 0, 1)

\* the number literal at i: digits, digits "." [digits], or "." digits
NumberToken(s, i) ==
    LET k == Skip(s, i, Digit)
        dot == k <= Len(s) /\ s[k] = "."
        f == IF dot THEN Skip(s, k + 1, Digit) ELSE k
        whole == Slice(s, i, k - 1)
        frac == Slice(s, k + 1, f - 1)
        octal == Len(whole) > 1 /\ whole[1] = "0" /\ NumVal(whole) # 0
        glued == f <= Len(s) /\ IsWord(s[f])   \* "invalid decimal literal"
    IN  [end |-> f,
         tok |-> IF glued \/ (~dot /\ octal) THEN BadToken
                 ELSE IF dot
                      THEN Token("num", "float",
                                 NumVal(whole) * Pow(10, Len(frac)) + NumVal(frac),
                                 Pow(10, Len(frac)))
                      ELSE Token("num", "int", NumVal(whole), 1)]

RECURSIVE LexFrom(_, _)
LexFrom(s, i) ==
    IF i > Len(s) THEN <<>>
    ELSE LET c == s[i]
             c2 == IF i < Len(s) THEN s[i + 1] ELSE ""
             c3 == IF i + 1 < Len(s) THEN s[i + 2] ELSE ""
         IN  IF c \in HSpace THEN LexFrom(s, i + 1)
             ELSE IF c = "." /\ c2 = "." /\ c3 = "."
             THEN <<Token("ellipsis", "", 0, 1)>> \o LexFrom(s, i + 3)
             ELSE IF c \in Digit \/ (c = "." /\ c2 \in Digit)
             THEN LET t == NumberToken(s, i) IN <<t.tok>> \o LexFrom(s, t.end)
             ELSE IF IsWord(c)
             THEN LET e == SkipName(s, i)
                      w == Join(Slice(s, i, e - 1))
                  IN  <<Token(IF w = "lambda" THEN "kw" ELSE "name", w, 0, 1)>>
                      \o LexFrom(s, e)
             ELSE IF c \in StringLiterals
             THEN <<Token("str", StringOf(c), 0, 1)>> \o LexFrom(s, i + 1)
             ELSE IF (c = "*" /\ c2 = "*") \/ (c = "/" /\ c2 = "/") \/ (c = ":" /\ c2 = "=")
             THEN <<Token("op", c \o c2, 0, 1)>> \o LexFrom(s, i + 2)
             ELSE IF c \in Punct \ {"="}
             THEN <<Token("op", c, 0, 1)>> \o LexFrom(s, i + 1)
             ELSE <<BadToken>> \o LexFrom(s, i + 1)

\* a text that starts with a blank is an "unexpected indent"
Lex(s) ==
    IF s # <<>> /\ s[1] \in HSpace THEN <<BadToken>> ELSE LexFrom(s, 1)

(***************************************************************************)
(* compile(expr, '<string>', 'eval'), gh.py:79: the expression grammar, by *)
(* recursive descent.  Each parser returns whether it succeeded, the node  *)
(* it built and the index of the next token.                               *)
(***************************************************************************)
Parsed(node, pos) == [ok |-> TRUE, node |-> node, pos |-> pos]
NoParse == [ok |-> FALSE, node |-> NoCode, pos |-> 0]

Tok(ts, i) == IF i <= Len(ts) THEN ts[i] ELSE Token("end", "", 0, 1)
IsOp(ts, i, ops) == Tok(ts, i).k = "op" /\ Tok(ts, i).s \in ops

RECURSIVE ParseTest(_, _), LambdaBody(_, _), ParseNamed(_, _), ParseParams(_, _, _),
          ParseSum(_, _), SumAfter(_, _), SumRest(_, _, _), SumNext(_, _, _, _),
          ParseTerm(_, _), TermAfter(_, _), TermRest(_, _, _), TermNext(_, _, _, _),
          ParseFactor(_, _), ParsePower(_, _), PowerAfter(_, _), ParsePrimary(_, _),
          TrailersAfter(_, _), Trailers(_, _, _), CallTrailer(_, _, _),
          SubTrailer(_, _, _), ParseItems(_, _, _, _), ItemsAfter(_, _, _, _),
          ParseAtom(_, _)

\* test: lambda [params] ":" test | sum
LambdaNode(ps, body) ==
    IF body.ok THEN Parsed(Node("lambda", "", 0, 1, <<body.node>> \o ps.node.xs), body.pos)
    ELSE NoParse
LambdaBody(ts, ps) == IF ps.ok THEN LambdaNode(ps, ParseTest(ts, ps.pos)) ELSE NoParse
ParseTest(ts, i) ==
    IF Tok(ts, i).k = "kw" THEN LambdaBody(ts, ParseParams(ts, i + 1, <<>>))
    ELSE ParseSum(ts, i)

\* the parameter names of a lambda up to its ":", as a node holding name nodes
ParseParams(ts, i, acc) ==
    IF IsOp(ts, i, {":"}) THEN Parsed(Node("params", "", 0, 1, acc), i + 1)
    ELSE IF Tok(ts, i).k = "name"
              /\ \A j \in 1..Len(acc) : acc[j].s # Tok(ts, i).s
         THEN IF IsOp(ts, i + 1, {","})
              THEN ParseParams(ts, i + 2, Append(acc, Node("name", Tok(ts, i).s, 0, 1, <<>>)))
              ELSE IF IsOp(ts, i + 1, {":"})
                   THEN Parsed(Node("params", "", 0, 1,
                                    Append(acc, Node("name", Tok(ts, i).s, 0, 1, <<>>))),
                               i + 2)
                   ELSE NoParse
         ELSE NoParse

\* named expression: NAME ":=" test | test
WalrusNode(name, v) ==
    IF v.ok THEN Parsed(Node("walrus", name, 0, 1, <<v.node>>), v.pos) ELSE NoParse
ParseNamed(ts, i) ==
    IF Tok(ts, i).k = "name" /\ IsOp(ts, i + 1, {":="})
    THEN WalrusNode(Tok(ts, i).s, ParseTest(ts, i + 2))
    ELSE ParseTest(ts, i)

\* sum: term (("+" | "-") term)*
ParseSum(ts, i) == SumAfter(ts, ParseTerm(ts, i))
SumAfter(ts, l) == IF l.ok THEN SumRest(ts, l.node, l.pos) ELSE NoParse
SumRest(ts, left, i) ==
    IF IsOp(ts, i, {"+", "-"}) THEN SumNext(ts, left, Tok(ts, i).s, ParseTerm(ts, i + 1))
    ELSE Parsed(left, i)
SumNext(ts, left, op, r) ==
    IF r.ok THEN SumRest(ts, Node("bin", op, 0, 1, <<left, r.node>>), r.pos) ELSE NoParse

\* term: factor (("*" | "/" | "//" | "%") factor)*
ParseTerm(ts, i) == TermAfter(ts, ParseFactor(ts, i))
TermAfter(ts, l) == IF l.ok THEN TermRest(ts, l.node, l.pos) ELSE NoParse
TermRest(ts, left, i) ==
    IF IsOp(ts, i, {"*", "/", "//", "%"})
    THEN TermNext(ts, left, Tok(ts, i).s, ParseFactor(ts, i + 1))
    ELSE Parsed(left, i)
TermNext(ts, left, op, r) ==
    IF r.ok THEN TermRest(ts, Node("bin", op, 0, 1, <<left, r.node>>), r.pos) ELSE NoParse

\* factor: ("+" | "-") factor | power
UnaryNode(op, r) ==
    IF r.ok THEN Parsed(Node("unary", op, 0, 1, <<r.node>>), r.pos) ELSE NoParse
ParseFactor(ts, i) ==
    IF IsOp(ts, i, {"+", "-"}) THEN UnaryNode(Tok(ts, i).s, ParseFactor(ts, i + 1))
    ELSE ParsePower(ts, i)

\* power: primary ["**" factor]
PowerNode(b, e) ==
    IF e.ok THEN Parsed(Node("bin", "**", 0, 1, <<b.node, e.node>>), e.pos) ELSE NoParse
ParsePower(ts, i) == PowerAfter(ts, ParsePrimary(ts, i))
PowerAfter(ts, b) ==
    IF b.ok /\ IsOp(ts, b.pos, {"**"}) THEN PowerNode(b, ParseFactor(ts, b.pos + 1)) ELSE b

\* primary: atom followed by calls, attribute references and subscriptions
ParsePrimary(ts, i) == TrailersAfter(ts, ParseAtom(ts, i))
TrailersAfter(ts, a) == IF a.ok THEN Trailers(ts, a.node, a.pos) ELSE NoParse
Trailers(ts, left, i) ==
    IF IsOp(ts, i, {"("}) THEN CallTrailer(ts, left, ParseItems(ts, i + 1, <<>>, ")"))
    ELSE IF IsOp(ts, i, {"."})
    THEN IF Tok(ts, i + 1).k = "name"
         THEN Trailers(ts, Node("attr", Tok(ts, i + 1).s, 0, 1, <<left>>), i + 2)
         ELSE NoParse
    ELSE IF IsOp(ts, i, {"["}) THEN SubTrailer(ts, left, ParseTest(ts, i + 1))
    ELSE Parsed(left, i)
CallTrailer(ts, left, args) ==
    IF args.ok THEN Trailers(ts, Node("call", "", 0, 1, <<left>> \o args.node.xs), args.pos)
    ELSE NoParse
SubTrailer(ts, left, x) ==
    IF x.ok /\ IsOp(ts, x.pos, {"]"})
    THEN Trailers(ts, Node("sub", "", 0, 1, <<left, x.node>>), x.pos + 1)
    ELSE NoParse

\* named expressions separated by commas up to the closing token; the node
\* holds them, and n counts the commas
ParseItems(ts, i, acc, close) ==
    IF IsOp(ts, i, {close}) THEN Parsed(Node("items", "", Len(acc), 1, acc), i + 1)
    ELSE ItemsAfter(ts, acc, close, ParseNamed(ts, i))
ItemsAfter(ts, acc, close, x) ==
    IF ~x.ok THEN NoParse
    ELSE IF IsOp(ts, x.pos, {","})
         THEN ParseItems(ts, x.pos + 1, Append(acc, x.node), close)
         ELSE IF IsOp(ts, x.pos, {close})
              THEN Parsed(Node("items", "", Len(acc), 1, Append(acc, x.node)), x.pos + 1)
              ELSE NoParse

\* atom: NUMBER | STRING | NAME | "..." | "(" items ")"
GroupNode(items) ==
    IF ~items.ok THEN NoParse
    ELSE IF Len(items.node.xs) = 1 /\ items.node.n = 0
         THEN Parsed(items.node.xs[1], items.pos)      \* ( x )
         ELSE Parsed(Node("tuple", "", 0, 1, items.node.xs), items.pos)
LeafNode(t, i) == Parsed(Node(t.k, t.s, t.n, t.d, <<>>), i + 1)
ParseAtom(ts, i) ==
    IF Tok(ts, i).k \in {"num", "str", "name", "ellipsis"} THEN LeafNode(Tok(ts, i), i)
    ELSE IF IsOp(ts, i, {"("}) THEN GroupNode(ParseItems(ts, i + 1, <<>>, ")"))
    ELSE NoParse

\* the whole input: test ("," test)* [","]
RECURSIVE ParseInput(_, _, _), InputAfter(_, _, _)
ParseInput(ts, i, acc) == InputAfter(ts, acc, ParseTest(ts, i))
InputAfter(ts, acc, x) ==
    IF ~x.ok THEN NoParse
    ELSE IF IsOp(ts, x.pos, {","})
         THEN IF x.pos = Len(ts)
              THEN Parsed(Node("tuple", "", 0, 1, Append(acc, x.node)), x.pos + 1)
              ELSE ParseInput(ts, x.pos + 1, Append(acc, x.node))
         ELSE IF x.pos = Len(ts) + 1
              THEN IF acc = <<>> THEN x
                   ELSE Parsed(Node("tuple", "", 0, 1, Append(acc, x.node)), x.pos)
              ELSE NoParse

\* gh.py:79: the code object of a text, or the SyntaxError compile raises
ParseTokens(ts) ==
    IF \E j \in 1..Len(ts) : ts[j].k = "bad" THEN NoParse ELSE ParseInput(ts, 1, <<>>)
CodeOf(p) == [ok |-> p.ok, node |-> p.node]
Compile(text) == CodeOf(ParseTokens(Lex(text)))

(***************************************************************************)
(* eval(code, {"__builtins__": {}}, local_names), gh.py:83: the objects an *)
(* expression can reach and what the operators do on them.                 *)
(***************************************************************************)
Result(exc, msg, val) == [exc |-> exc, msg |-> msg, val |-> val]
Returns(v) == Result("", "", v)
Raises(exc, msg) == Result(exc, msg, NoneV)

\* the functions of module math that the model follows
MathFunctions ==
    {"sin", "cos", "tan", "asin", "acos", "atan", "sqrt", "exp", "log", "log10",
     "factorial", "gamma", "radians", "degrees"}

Sign(v) == IF v.n > 0 THEN 1 ELSE IF v.n < 0 THEN -1 ELSE 0
\* n/d > k, for an exact number
Exceeds(v, k) == v.n > k * v.d

RECURSIVE Factorial(_)
Factorial(n) == IF n <= 1 THEN 1 ELSE n * Factorial(n - 1)

\* a function of module math called on args.  A result the model does not
\* compute is the uninterpreted float name(args); an uninterpreted argument
\* is taken to lie in the function's domain.
MathCall(name, args) ==
    LET x == args[1]
    IN  IF Len(args) # 1 /\ ~(name = "log" /\ Len(args) = 2)
        THEN Raises("TypeError", "math." \o name \o "() takes exactly one argument")
        ELSE IF \E i \in 1..Len(args) : ~IsNumber(args[i])
        THEN Raises("TypeError", "must be real number")
        ELSE IF name = "factorial"
        THEN IF x.t = "float"
             THEN Raises("TypeError", "'float' object cannot be interpreted as an integer")
             ELSE IF x.n < 0
                  THEN Raises("ValueError", "factorial() not defined for negative values")
                  ELSE Returns(IntV(Factorial(x.n)))
        ELSE IF ~IsExact(x) THEN Returns(SymV(name, args))
        ELSE IF \/ name = "sqrt" /\ Sign(x) < 0
                \/ name \in {"log", "log10"} /\ Sign(x) <= 0
                \/ name \in {"asin", "acos"} /\ (x.n > x.d \/ -x.n > x.d)
                \/ name = "gamma" /\ Sign(x) <= 0 /\ x.d = 1
        THEN Raises("ValueError", "math domain error")
        ELSE IF \/ name = "exp" /\ Exceeds(x, 709)
                \/ name = "gamma" /\ Exceeds(x, 171)
        THEN Raises("OverflowError", "math range error")
        ELSE Returns(SymV(name, args))

\* gh.py:57-67: the lambda returned by make_forward / make_inverse, called
WrapperCall(w, args) ==
    LET kind == w.xs[1].s
        mode == w.xs[2].s
    IN  IF Len(args) # 1
        THEN Raises("TypeError", "<lambda>() takes 1 positional argument")
        ELSE IF mode = "deg"
        THEN IF kind = "forward"
             THEN LET r == MathCall("radians", args)              \* gh.py:59
                  IN  IF r.exc # "" THEN r ELSE MathCall(w.s, <<r.val>>)
             ELSE LET r == MathCall(w.s, args)                    \* gh.py:65
                  IN  IF r.exc # "" THEN r ELSE MathCall("degrees", <<r.val>>)
        ELSE MathCall(w.s, args)                                  \* gh.py:61, 67

RECURSIVE Repeat(_, _)
Repeat(xs, k) == IF k <= 0 THEN <<>> ELSE xs \o Repeat(xs, k - 1)
RECURSIVE RepeatStr(_, _)
RepeatStr(w, k) == IF k <= 0 THEN "" ELSE w \o RepeatStr(w, k - 1)

Number(int, n, d) == IF int THEN IntV(n) ELSE FloatV(n, d)

\* a binary operator of the expression on two values
BinOp(op, l, r) ==
    LET int == l.t = "int" /\ r.t = "int"
        unsupported == Raises("TypeError", "unsupported operand type(s) for " \o op)
    IN  IF IsNumber(l) /\ IsNumber(r)
        THEN IF op \in {"/", "//", "%"} /\ IsExact(r) /\ r.n = 0
             THEN Raises("ZeroDivisionError", "division by zero")
             ELSE IF op = "**" /\ IsExact(l) /\ l.n = 0 /\ IsExact(r) /\ r.n < 0
             THEN Raises("ZeroDivisionError", "0.0 cannot be raised to a negative power")
             ELSE IF ~IsExact(l) \/ ~IsExact(r) THEN Returns(SymV(op, <<l, r>>))
             ELSE CASE op = "+" -> Returns(Number(int, l.n * r.d + r.n * l.d, l.d * r.d))
                    [] op = "-" -> Returns(Number(int, l.n * r.d - r.n * l.d, l.d * r.d))
                    [] op = "*" -> Returns(Number(int, l.n * r.n, l.d * r.d))
                    [] op = "/" -> Returns(FloatV(l.n * r.d, l.d * r.n))
                    [] op = "//" ->
                         LET q == FloatV(l.n * r.d, l.d * r.n)
                         IN  Returns(Number(int, q.n \div q.d, 1))
                    [] op = "%" ->
                         LET q == FloatV(l.n * r.d, l.d * r.n)
                             f == q.n \div q.d
                         IN  Returns(Number(int, l.n * r.d - f * r.n * l.d, l.d * r.d))
                    [] op = "**" ->
                         IF r.d # 1 THEN Returns(SymV(op, <<l, r>>))
                         ELSE IF r.n >= 0
                         THEN Returns(Number(int, Pow(l.n, r.n), Pow(l.d, r.n)))
                         ELSE Returns(FloatV(Pow(l.d, -r.n), Pow(l.n, -r.n)))
                    [] OTHER -> unsupported
        ELSE IF op = "+" /\ l.t = "str" /\ r.t = "str" THEN Returns(StrV(l.s \o r.s))
        ELSE IF op = "+" /\ l.t = "tuple" /\ r.t = "tuple" THEN Returns(TupleV(l.xs \o r.xs))
        ELSE IF op = "*" /\ l.t = "str" /\ r.t = "int" THEN Returns(StrV(RepeatStr(l.s, r.n)))
        ELSE IF op = "*" /\ l.t = "int" /\ r.t = "str" THEN Returns(StrV(RepeatStr(r.s, l.n)))
        ELSE IF op = "*" /\ l.t = "tuple" /\ r.t = "int" THEN Returns(TupleV(Repeat(l.xs, r.n)))
        ELSE IF op = "*" /\ l.t = "int" /\ r.t = "tuple" THEN Returns(TupleV(Repeat(r.xs, l.n)))
        ELSE unsupported

UnaryOp(op, v) ==
    IF ~IsNumber(v) THEN Raises("TypeError", "bad operand type for unary " \o op)
    ELSE IF op = "+" THEN Returns(v)
    ELSE IF IsExact(v) THEN Returns(Number(v.t = "int", -v.n, v.d))
    ELSE Returns(SymV("neg", <<v>>))

(***************************************************************************)
(* gh.py:25-37: module math as dir(math) lists it (the names the model     *)
(* follows), and ALLOWED_NAMES as built from it at import.                 *)
(***************************************************************************)
MathConstants == {"pi", "e"}
MathDunder == {"__doc__", "__loader__", "__name__", "__package__", "__spec__"}
MathDir == MathDunder \cup MathConstants \cup MathFunctions

\* getattr(math, k)
MathAttr(k) ==
    IF k \in MathFunctions THEN BuiltinV(k)
    ELSE IF k \in MathConstants THEN SymV(k, <<>>)
    ELSE IF k = "__spec__" THEN ObjectV("ModuleSpec")
    ELSE IF k = "__loader__" THEN ObjectV("ExtensionFileLoader")
    ELSE StrV("math")

\* gh.py:26-37: the aliases ALLOWED_NAMES.update adds
Aliases ==
    [k \in {"pi", "e", "sqrt", "ln", "log", "fact", "asin", "acos", "atan", "gamma"} |->
        CASE k = "ln" -> MathAttr("log")
          [] k = "log" -> MathAttr("log10")
          [] k = "fact" -> MathAttr("factorial")
          [] OTHER -> MathAttr(k)]

Update(m, u) ==
    [k \in DOMAIN m \cup DOMAIN u |-> IF k \in DOMAIN u THEN u[k] ELSE m[k]]
Put(m, k, v) == [x \in DOMAIN m \cup {k} |-> IF x = k THEN v ELSE m[x]]

\* gh.py:25-37
AllowedNamesAtImport ==
    Update([k \in {x \in MathDir : x \notin MathDunder} |-> MathAttr(k)], Aliases)

Forward == {"sin", "cos", "tan"}
Inverse == {"asin", "acos", "atan"}
Trig == Forward \cup Inverse

\* gh.py:55-74: local_names, the copy of ALLOWED_NAMES with the six wrappers
Namespace(allowed, mode) ==
    Update(allowed,
           [k \in Trig |-> WrapperV(k, IF k \in Forward THEN "forward" ELSE "inverse", mode)])

\* gh.py:76
safe_builtin_names == {"abs", "round"}


(***************************************************************************)
(* Attribute references and subscriptions.  Frames are numbered from the   *)
(* caller of safe_eval (0): safe_eval's own frame is 1, the frame of the   *)
(* compiled expression is 2 and each lambda being called adds one.         *)
(***************************************************************************)
GetAttr(v, name) ==
    IF name = "__class__" THEN Returns(TypeV(v.t))
    ELSE IF v.t = "function" /\ name = "__globals__"
    THEN Returns(DictV(IF IsWrapper(v) THEN "gh" ELSE "eval_globals"))
    ELSE IF v.t = "builtin_function_or_method" /\ name = "__self__"
    THEN Returns(ModuleV(IF v.s = "_getframe" THEN "sys" ELSE "math"))
    ELSE IF v.t = "module" /\ v.s = "math" /\ name \in MathDir THEN Returns(MathAttr(name))
    ELSE IF v.t = "module" /\ v.s = "sys" /\ name = "_getframe"
    THEN Returns(BuiltinV("_getframe"))
    ELSE IF v.t = "ModuleSpec" /\ name = "__init__" THEN Returns(MethodV("__init__", v))
    ELSE IF v.t = "method" /\ v.s = "__init__" /\ name = "__globals__"
    THEN Returns(DictV("importlib"))
    ELSE IF v.t = "frame" /\ name = "f_back"
    THEN Returns(IF v.n > 0 THEN FrameV(v.n - 1) ELSE NoneV)
    ELSE IF v.t = "frame" /\ name = "f_locals"
    THEN Returns(DictV(CASE v.n = 0 -> "caller"
                         [] v.n = 1 -> "safe_eval"
                         [] v.n = 2 -> "local_names"
                         [] OTHER -> "lambda"))
    ELSE IF v.t = "dict" /\ name = "__setitem__" THEN Returns(MethodV("__setitem__", v))
    ELSE Raises("AttributeError", "'" \o v.t \o "' object has no attribute '" \o name \o "'")

\* v[i]; st holds the two mappings an expression can reach and angle_mode
Subscript(v, i, st) ==
    IF v.t = "dict" /\ i.t = "str"
    THEN LET k == i.s
             missing == Raises("KeyError", "'" \o k \o "'")
         IN  CASE v.s = "gh" ->
                    IF k = "ALLOWED_NAMES" THEN Returns(DictV("ALLOWED_NAMES"))
                    ELSE IF k = "math" THEN Returns(ModuleV("math"))
                    ELSE missing
               [] v.s = "ALLOWED_NAMES" ->
                    IF k \in DOMAIN st.allowed THEN Returns(st.allowed[k]) ELSE missing
               [] v.s = "local_names" ->
                    IF k \in DOMAIN st.locals THEN Returns(st.locals[k]) ELSE missing
               [] v.s = "importlib" ->
                    IF k = "sys" THEN Returns(ModuleV("sys")) ELSE missing
               [] v.s = "safe_eval" ->
                    IF k = "angle_mode" THEN Returns(StrV(st.mode))
                    ELSE IF k = "local_names" THEN Returns(DictV("local_names"))
                    ELSE missing
               [] OTHER -> missing
    ELSE IF v.t = "tuple" /\ i.t = "int"
    THEN LET j == IF i.n < 0 THEN i.n + Len(v.xs) + 1 ELSE i.n + 1
         IN  IF j \in 1..Len(v.xs) THEN Returns(v.xs[j])
             ELSE Raises("IndexError", "tuple index out of range")
    ELSE Raises("TypeError", "'" \o v.t \o "' object is not subscriptable")

\* the last cell of vars that holds name, or 0
RECURSIVE FindCell(_, _)
FindCell(cells, name) ==
    IF cells = <<>> THEN 0
    ELSE IF cells[Len(cells)].s = name THEN Len(cells)
    ELSE FindCell(SubSeq(cells, 1, Len(cells) - 1), name)

Done(r, st, cells) ==
    [exc |-> r.exc, msg |-> r.msg, val |-> r.val, st |-> st, cells |-> cells]

\* the state an evaluation threads: the mappings it can change, the
\* identifiers it has looked up and the number of nodes it has evaluated
EvalState(locals, allowed, mode) ==
    [locals |-> locals, allowed |-> allowed, mode |-> mode, looked |-> {}, steps |-> 0]

Looked(st, name) == [st EXCEPT !.looked = @ \cup {name}]

(***************************************************************************)
(* The evaluation of a node.  cells are the variables of the lambda being  *)
(* called (with those it closed over) and level counts the lambdas being   *)
(* called: at level 0 a name is looked up in local_names, then in the      *)
(* globals {"__builtins__": {}} and the empty builtins; inside a lambda it *)
(* is a variable of the lambda or is looked up in the globals only.        *)
(***************************************************************************)
RECURSIVE Eval(_, _, _, _), EvalAll(_, _, _, _, _), Apply(_, _, _, _)

Eval(node, cells, level, st0) ==
    LET st == [st0 EXCEPT !.steps = @ + 1]
        kids == node.xs
    IN  CASE node.k = "num" -> Done(Returns(Number(node.s = "int", node.n, node.d)), st, cells)
          [] node.k = "str" -> Done(Returns(StrV(node.s)), st, cells)
          [] node.k = "ellipsis" -> Done(Returns(ObjectV("ellipsis")), st, cells)
          [] node.k = "name" ->
                LET c == FindCell(cells, node.s)
                    st1 == Looked(st, node.s)
                IN  IF level > 0 /\ c > 0 THEN Done(Returns(cells[c].xs[1]), st, cells)
                    ELSE IF level = 0 /\ node.s \in DOMAIN st.locals
                    THEN Done(Returns(st.locals[node.s]), st1, cells)
                    ELSE IF node.s = "__builtins__"
                    THEN Done(Returns(DictV("builtins")), st1, cells)
                    ELSE Done(Raises("NameError", "name '" \o node.s \o "' is not defined"),
                              st1, cells)
          [] node.k = "walrus" ->
                LET v == Eval(kids[1], cells, level, st)
                IN  IF v.exc # "" THEN v
                    ELSE IF level = 0
                    THEN Done(v, [v.st EXCEPT !.locals = Put(@, node.s, v.val)], v.cells)
                    ELSE Done(v, v.st, Append(v.cells, Cell(node.s, v.val)))
          [] node.k = "lambda" -> Done(Returns(LambdaV(node, cells)), st, cells)
          [] node.k = "tuple" ->
                LET vs == EvalAll(kids, 1, cells, level, st)
                IN  IF vs.exc # "" THEN vs ELSE Done(Returns(TupleV(vs.val.xs)), vs.st, vs.cells)
          [] node.k = "unary" ->
                LET v == Eval(kids[1], cells, level, st)
                IN  IF v.exc # "" THEN v ELSE Done(UnaryOp(node.s, v.val), v.st, v.cells)
          [] node.k = "bin" ->
                LET vs == EvalAll(kids, 1, cells, level, st)
                IN  IF vs.exc # "" THEN vs
                    ELSE Done(BinOp(node.s, vs.val.xs[1], vs.val.xs[2]), vs.st, vs.cells)
          [] node.k = "attr" ->
                LET v == Eval(kids[1], cells, level, st)
                IN  IF v.exc # "" THEN v
                    ELSE Done(GetAttr(v.val, node.s), Looked(v.st, node.s), v.cells)
          [] node.k = "sub" ->
                LET vs == EvalAll(kids, 1, cells, level, st)
                IN  IF vs.exc # "" THEN vs
                    ELSE Done(Subscript(vs.val.xs[1], vs.val.xs[2], vs.st), vs.st, vs.cells)
          [] node.k = "call" ->
                LET vs == EvalAll(kids, 1, cells, level, st)
                IN  IF vs.exc # "" THEN vs
                    ELSE LET r == Apply(vs.val.xs[1], Tail(vs.val.xs), level, vs.st)
                         IN  Done(r, r.st, vs.cells)
          [] OTHER -> Done(Raises("SystemError", "unknown node"), st, cells)

\* nodes[i..] from left to right; the values come back as a tuple
EvalAll(nodes, i, cells, level, st) ==
    IF i > Len(nodes) THEN Done(Returns(TupleV(<<>>)), st, cells)
    ELSE LET v == Eval(nodes[i], cells, level, st)
         IN  IF v.exc # "" THEN v
             ELSE LET rest == EvalAll(nodes, i + 1, v.cells, level, v.st)
                  IN  IF rest.exc # "" THEN rest
                      ELSE Done(Returns(TupleV(<<v.val>> \o rest.val.xs)), rest.st, rest.cells)

\* f(args), called from the code at the given level
Apply(f, args, level, st) ==
    IF f.t = "builtin_function_or_method" /\ f.s = "_getframe"
    THEN LET depth == IF args = <<>> THEN 0 ELSE args[1].n
         IN  IF Len(args) > 1 \/ (Len(args) = 1 /\ args[1].t # "int")
             THEN Done(Raises("TypeError", "_getframe() argument"), st, <<>>)
             ELSE IF depth > level + 2
             THEN Done(Raises("ValueError", "call stack is not deep enough"), st, <<>>)
             ELSE Done(Returns(FrameV(level + 2 - (IF depth < 0 THEN 0 ELSE depth))), st, <<>>)
    ELSE IF f.t = "builtin_function_or_method" THEN Done(MathCall(f.s, args), st, <<>>)
    ELSE IF f.t = "function" /\ IsWrapper(f) THEN Done(WrapperCall(f, args), st, <<>>)
    ELSE IF f.t = "function"
    THEN LET params == Tail(f.fn.xs)
         IN  IF Len(args) # Len(params)
             THEN Done(Raises("TypeError", "<lambda>() positional arguments"), st, <<>>)
             ELSE Eval(f.fn.xs[1],
                       f.xs \o [i \in 1..Len(params) |-> Cell(params[i].s, args[i])],
                       level + 1, st)
    ELSE IF f.t = "method" /\ f.s = "__setitem__"
    THEN IF Len(args) # 2
         THEN Done(Raises("TypeError", "expected 2 arguments"), st, <<>>)
         ELSE IF f.xs[1].s = "ALLOWED_NAMES" /\ args[1].t = "str"
         THEN Done(Returns(NoneV), [st EXCEPT !.allowed = Put(@, args[1].s, args[2])], <<>>)
         ELSE IF f.xs[1].s = "local_names" /\ args[1].t = "str"
         THEN Done(Returns(NoneV), [st EXCEPT !.locals = Put(@, args[1].s, args[2])], <<>>)
         ELSE Done(Returns(NoneV), st, <<>>)
    ELSE Done(Raises("TypeError", "'" \o f.t \o "' object is not callable"), st, <<>>)

(***************************************************************************)
(* gh.py:80: code.co_names, the names and attribute names of the compiled  *)
(* expression in the order the compiler meets them.  The body of a lambda  *)
(* is a code object of its own and its names are not among them.           *)
(***************************************************************************)
RECURSIVE NamesOf(_), NamesOfAll(_)
NamesOf(node) ==
    CASE node.k = "name" -> <<node.s>>
      [] node.k = "attr" -> NamesOf(node.xs[1]) \o <<node.s>>
      [] node.k = "walrus" -> NamesOf(node.xs[1]) \o <<node.s>>
      [] node.k \in {"lambda", "num", "str", "ellipsis"} -> <<>>
      [] OTHER -> NamesOfAll(node.xs)
NamesOfAll(nodes) ==
    IF nodes = <<>> THEN <<>> ELSE NamesOf(Head(nodes)) \o NamesOfAll(Tail(nodes))

RECURSIVE Dedupe(_)
Dedupe(ws) ==
    IF ws = <<>> THEN <<>>
    ELSE LET init == Dedupe(SubSeq(ws, 1, Len(ws) - 1))
             last == ws[Len(ws)]
         IN  IF \E i \in 1..Len(init) : init[i] = last THEN init ELSE Append(init, last)

co_names(node) == Dedupe(NamesOf(node))

\* gh.py:80-82: the first name of co_names the check rejects, or ""
RECURSIVE FirstRejected(_, _)
FirstRejected(names, locals) ==
    IF names = <<>> THEN ""
    ELSE IF Head(names) \notin DOMAIN locals /\ Head(names) \notin safe_builtin_names
         THEN Head(names)
         ELSE FirstRejected(Tail(names), locals)

(***************************************************************************)
(* gh.py:39-85: safe_eval, from its arguments and ALLOWED_NAMES to the way *)
(* it ends: the value returned or the exception raised (exc, "" if none),  *)
(* the step that raised it, and ALLOWED_NAMES as the call leaves it.       *)
(***************************************************************************)
Outcome(exc, msg, val, by) == [exc |-> exc, msg |-> msg, val |-> val, by |-> by]
NoOutcome == Outcome("", "", NoneV, "")

SyntaxFailure == Outcome("SyntaxError", "invalid syntax", NoneV, "compile")
NameFailure(name) ==
    Outcome("NameError", "Use of '" \o name \o "' not allowed", NoneV, "check")

\* gh.py:83
EvalCode(node, locals, allowed, mode) == Eval(node, <<>>, 0, EvalState(locals, allowed, mode))

\* gh.py:83-85: the call ends as the evaluation r ended
Evaluated(r) ==
    [outcome |-> Outcome(r.exc, r.msg, r.val, "eval"), allowed |-> r.st.allowed]

\* gh.py:80-83: rejected is the first name the check rejects, or ""
Checked(node, rejected, locals, allowed, mode) ==
    IF rejected # "" THEN [outcome |-> NameFailure(rejected), allowed |-> allowed]
    ELSE Evaluated(EvalCode(node, locals, allowed, mode))

\* gh.py:79-83
Compiled(compiled, locals, allowed, mode) ==
    IF ~compiled.ok THEN [outcome |-> SyntaxFailure, allowed |-> allowed]
    ELSE Checked(compiled.node, FirstRejected(co_names(compiled.node), locals),
                 locals, allowed, mode)

safe_eval(text, mode, allowed) ==
    Compiled(Compile(Preprocess(text)), Namespace(allowed, mode), allowed, mode)


(***************************************************************************)
(* The state after import and construction (gh.py:25-37, gh.py:94-96).     *)
(***************************************************************************)
NoTrail == [looked |-> {}, steps |-> 0]
Dialog(kind, title, text, detail) ==
    [kind |-> kind, title |-> title, text |-> text, detail |-> detail]
NoDialog == Dialog("", "", "", "")

Init ==
    /\ ALLOWED_NAMES = AllowedNamesAtImport
    /\ expression = <<>>
    /\ history = <<>>
    /\ history_listbox = <<>>
    /\ angle_mode_var = "rad"
    /\ dialog = NoDialog
    /\ pc = "idle"
    /\ expr = <<>>
    /\ angle_mode = "rad"
    /\ local_names = <<>>
    /\ code = NoCode
    /\ outcome = NoOutcome
    /\ trail = NoTrail
    /\ raw = <<>>
    /\ canonical = <<>>
    /\ recanonical = <<>>
    /\ stage = "idle"

(***************************************************************************)
(* safe_eval step by step, called over and over by a client of the core    *)
(* with the expressions below in either angle mode.                        *)
(***************************************************************************)
AngleModes == {"rad", "deg"}

Expressions ==
    { <<"2", "+", "2">>,
      <<"2", "^", "1", "0">>,
      <<"2", "×", "π">>,
      <<"1", "0", "%", "2", "0", "0">>,
      <<"5", "0", "%">>,
      <<"1", "/", "0">>,
      <<"1", "+">>,
      <<"pi">>,
      <<"(", "pi", ":", "=", "3", ")">>,
      <<"sin", "(", "9", "0", ")">>,
      <<"asin", "(", "1", ")">>,
      <<"sin">>,
      <<"sin", "(", "1", ",", "2", ")">>,
      <<"'a'">>,
      <<"(", "1", ",", "2", ")">>,
      <<"sqrt", "(", "-", "1", ")">>,
      <<"fact", "(", "-", "1", ")">>,
      <<"fact", "(", "3", ")">>,
      <<"exp", "(", "1", "0", "0", "0", ")">>,
      <<"abs", "(", "-", "1", ")">>,
      <<"round", "(", "2", ".", "5", ")">>,
      <<"os", ".", "system", "(", "'x'", ")">>,
      <<"__import__", "(", "'os'", ")">>,
      <<"1", "/", "0", "+", "foo">>,
      <<"foo", "+", "1", "/", "0">>,
      <<"(", "lambda", ":", "foo", ")", "(", ")">>,
      <<"1", "/", "0", "+", "(", "lambda", ":", "foo", ")", "(", ")">>,
      <<"(", "lambda", ":", "(", "1", ")", ".", "__class__", ")", "(", ")">>,
      <<"(", "lambda", " ", "f", ":", "f", ".", "__globals__", "[", "'ALLOWED_NAMES'", "]",
        ".", "__setitem__", "(", "'pi'", ",", "3", ")", ")", "(", "sin", ")">>,
      <<"(", "lambda", " ", "f", ":", "f", ".", "__self__", ".", "__spec__", ".",
        "__init__", ".", "__globals__", "[", "'sys'", "]", ".", "_getframe", "(", "2", ")",
        ".", "f_locals", "[", "'angle_mode'", "]", ")", "(", "sqrt", ")">> }

Call(text, mode) ==
    /\ pc \in {"idle", "done"}
    /\ pc' = "rewrite"
    /\ raw' = text
    /\ expr' = text
    /\ angle_mode' = mode
    /\ local_names' = <<>>
    /\ code' = NoCode
    /\ outcome' = NoOutcome
    /\ trail' = NoTrail
    /\ UNCHANGED <<ALLOWED_NAMES, guiVars, canonical, recanonical, stage>>

\* gh.py:44-53
Rewrite ==
    /\ pc = "rewrite"
    /\ expr' = Preprocess(expr)
    /\ pc' = "bind"
    /\ UNCHANGED <<ALLOWED_NAMES, guiVars, preVars, angle_mode, local_names, code,
                   outcome, trail>>

\* gh.py:55-74
Bind ==
    /\ pc = "bind"
    /\ local_names' = Namespace(ALLOWED_NAMES, angle_mode)
    /\ pc' = "compile"
    /\ UNCHANGED <<ALLOWED_NAMES, guiVars, preVars, expr, angle_mode, code, outcome, trail>>

\* gh.py:79
CompileExpr ==
    /\ pc = "compile"
    /\ LET c == Compile(expr)
       IN  IF c.ok
           THEN code' = c.node /\ pc' = "check" /\ UNCHANGED outcome
           ELSE outcome' = SyntaxFailure /\ pc' = "done" /\ UNCHANGED code
    /\ UNCHANGED <<ALLOWED_NAMES, guiVars, preVars, expr, angle_mode, local_names, trail>>

\* gh.py:80-82
CheckNames ==
    /\ pc = "check"
    /\ LET rejected == FirstRejected(co_names(code), local_names)
       IN  IF rejected = ""
           THEN pc' = "eval" /\ UNCHANGED outcome
           ELSE outcome' = NameFailure(rejected) /\ pc' = "done"
    /\ UNCHANGED <<ALLOWED_NAMES, guiVars, preVars, expr, angle_mode, local_names, code,
                   trail>>

\* gh.py:83
EvalExpr ==
    /\ pc = "eval"
    /\ LET r == EvalCode(code, local_names, ALLOWED_NAMES, angle_mode)
       IN  /\ outcome' = Outcome(r.exc, r.msg, r.val, "eval")
           /\ ALLOWED_NAMES' = r.st.allowed
           /\ local_names' = r.st.locals
           /\ trail' = [looked |-> r.st.looked, steps |-> r.st.steps]
    /\ pc' = "done"
    /\ UNCHANGED <<guiVars, preVars, expr, angle_mode, code>>

NextEval ==
    \/ \E text \in Expressions, mode \in AngleModes : Call(text, mode)
    \/ Rewrite
    \/ Bind
    \/ CompileExpr
    \/ CheckNames
    \/ EvalExpr

SpecEval == Init /\ [][NextEval]_vars


(***************************************************************************)
(* The rewriting of gh.py:44-53 on its own, applied to a text and then to  *)
(* its own output.                                                         *)
(***************************************************************************)
RawAlphabet == {"1", ".", "%", "(", " ", "^", "π", "×", "÷"}
PercentAlphabet == {"1", ".", "%", "(", " ", "\n"}

\* the texts of length n over an alphabet
RECURSIVE TextsOfLen(_, _)
TextsOfLen(alphabet, n) ==
    IF n = 0 THEN {<<>>}
    ELSE {Append(t, c) : t \in TextsOfLen(alphabet, n - 1), c \in alphabet}

Texts(alphabet, max) == UNION {TextsOfLen(alphabet, n) : n \in 0..max}

RawTexts == Texts(RawAlphabet, MaxRawLen) \cup Texts(PercentAlphabet, MaxPercentLen)

Take(text) ==
    /\ stage = "idle"
    /\ raw' = text
    /\ canonical' = <<>>
    /\ recanonical' = <<>>
    /\ stage' = "taken"
    /\ UNCHANGED <<ALLOWED_NAMES, guiVars, callVars>>

RewriteOnce ==
    /\ stage = "taken"
    /\ canonical' = Preprocess(raw)
    /\ stage' = "once"
    /\ UNCHANGED <<ALLOWED_NAMES, guiVars, callVars, raw, recanonical>>

RewriteTwice ==
    /\ stage = "once"
    /\ recanonical' = Preprocess(canonical)
    /\ stage' = "twice"
    /\ UNCHANGED <<ALLOWED_NAMES, guiVars, callVars, raw, canonical>>

NextPre ==
    \/ \E text \in RawTexts : Take(text)
    \/ RewriteOnce
    \/ RewriteTwice

SpecPre == Init /\ [][NextPre]_vars

(***************************************************************************)
(* The window, gh.py:88-303.                                               *)
(***************************************************************************)
\* the labels of gh.py:160-168 that the model presses besides C, the erase
\* key and =
InsertLabels == {"0", "÷"}
\* the label of the erase key of gh.py:162, written in ASCII
Backspace == "<x]"
FunctionLabels ==
    {"sin", "cos", "tan", "log", "ln", "sqrt", "fact", "asin", "acos", "atan", "gamma"}
\* the characters of allowed_chars (gh.py:207) that the model types
Keys == {"0", "/"}
allowed_chars ==
    {"0", "1", "2", "3", "4", "5", "6", "7", "8", "9", "+", "-", "*", "/", "(", ")", ".", "%"}

\* str.strip()
RECURSIVE StripLeft(_), StripRight(_)
StripLeft(t) == IF t # <<>> /\ Head(t) \in Space THEN StripLeft(Tail(t)) ELSE t
StripRight(t) ==
    IF t # <<>> /\ t[Len(t)] \in Space THEN StripRight(SubSeq(t, 1, Len(t) - 1)) ELSE t
Strip(t) == StripRight(StripLeft(t))

DigitChar(k) ==
    CASE k = 0 -> "0" [] k = 1 -> "1" [] k = 2 -> "2" [] k = 3 -> "3" [] k = 4 -> "4"
      [] k = 5 -> "5" [] k = 6 -> "6" [] k = 7 -> "7" [] k = 8 -> "8" [] OTHER -> "9"

RECURSIVE NatStr(_)
NatStr(n) == IF n < 10 THEN <<DigitChar(n)>> ELSE NatStr(n \div 10) \o <<DigitChar(n % 10)>>

\* str(result), gh.py:245 and gh.py:275.  The text of an int or of a tuple
\* is spelled out; that of any other value is one atom naming its type.
RECURSIVE Str(_), StrAll(_)
Str(v) ==
    IF v.t = "int" THEN (IF v.n < 0 THEN <<"-">> ELSE <<>>) \o NatStr(Abs(v.n))
    ELSE IF v.t = "tuple"
    THEN <<"(">> \o StrAll(v.xs) \o (IF Len(v.xs) = 1 THEN <<",">> ELSE <<>>) \o <<")">>
    ELSE <<"<" \o v.t \o ">">>
StrAll(vs) ==
    IF vs = <<>> THEN <<>>
    ELSE Str(Head(vs)) \o (IF Len(vs) > 1 THEN <<",", " ">> ELSE <<>>) \o StrAll(Tail(vs))

\* gh.py:243-244
Shape(result) ==
    IF result.t = "float" /\ IsExact(result) /\ result.d = 1 THEN IntV(result.n) ELSE result

\* gh.py:275
Item(text, result) == text \o <<" ", "=", " ">> \o Str(result)

\* gh.py:274-277: the history after _add_history(expr, result), newest first
AppendHistory(h, text, result) == Append(h, Item(text, result))
_add_history(h, text, result) == <<Item(text, result)>> \o h

\* gh.py:279-282: the items of the listbox after _refresh_history
_refresh_history(h) == h

\* gh.py:253-270
InsertText(label) == IF label \in FunctionLabels THEN <<label, "(">> ELSE <<label>>

\* gh.py:230-232
PressClear ==
    /\ expression' = <<>>
    /\ dialog' = NoDialog
    /\ UNCHANGED <<ALLOWED_NAMES, history, history_listbox, angle_mode_var, callVars, preVars>>

\* gh.py:233-236
PressBackspace ==
    /\ expression' = SubSeq(expression, 1, Len(expression) - 1)
    /\ dialog' = NoDialog
    /\ UNCHANGED <<ALLOWED_NAMES, history, history_listbox, angle_mode_var, callVars, preVars>>

\* the handler of "=" with the clause for Exception ahead of the clause for
\* ZeroDivisionError
PressEqualsOneHandler ==
    LET text == Strip(expression)
        call == safe_eval(text, angle_mode_var, ALLOWED_NAMES)
        result == Shape(call.outcome.val)
    IN  IF text = <<>>
        THEN /\ dialog' = NoDialog
             /\ UNCHANGED <<ALLOWED_NAMES, expression, history, history_listbox>>
        ELSE /\ ALLOWED_NAMES' = call.allowed
             /\ IF call.outcome.exc = ""
                THEN /\ Len(history) < MaxHistory
                     /\ expression' = Str(result)
                     /\ history' = _add_history(history, text, result)
                     /\ history_listbox' = _refresh_history(history')
                     /\ dialog' = NoDialog
                ELSE /\ dialog' =
                          Dialog("showerror", "Error", "Invalid expression:",
                                 call.outcome.msg)
                     /\ UNCHANGED <<expression, history, history_listbox>>

\* gh.py:237-251, with _add_history and _refresh_history (gh.py:274-282).
\* The history of the program is unbounded; the model stops adding entries
\* at MaxHistory.
PressEquals ==
    LET text == Strip(expression)
        call == safe_eval(text, angle_mode_var, ALLOWED_NAMES)
        result == Shape(call.outcome.val)
    IN  IF text = <<>>
        THEN /\ dialog' = NoDialog
             /\ UNCHANGED <<ALLOWED_NAMES, expression, history, history_listbox>>
        ELSE /\ ALLOWED_NAMES' = call.allowed
             /\ IF call.outcome.exc = ""
                THEN /\ Len(history) < MaxHistory
                     /\ expression' = Str(result)
                     /\ history' = _add_history(history, text, result)
                     /\ history_listbox' = _refresh_history(history')
                     /\ dialog' = NoDialog
                ELSE /\ dialog' =
                          IF call.outcome.exc = "ZeroDivisionError"
                          THEN Dialog("showerror", "Error",
                                      "Division by zero is not allowed.", "")
                          ELSE Dialog("showerror", "Error", "Invalid expression:",
                                      call.outcome.msg)
                     /\ UNCHANGED <<expression, history, history_listbox>>

\* gh.py:253-272.  The text of the program is unbounded; the model stops
\* inserting at MaxExprLen.
PressInsert(label) ==
    /\ Len(expression) + Len(InsertText(label)) <= MaxExprLen
    /\ expression' = expression \o InsertText(label)
    /\ dialog' = NoDialog
    /\ UNCHANGED <<ALLOWED_NAMES, history, history_listbox, angle_mode_var, callVars, preVars>>

\* gh.py:229-272
on_button(label) ==
    CASE label = "C" -> PressClear
      [] label = Backspace -> PressBackspace
      [] label = "=" -> PressEquals /\ UNCHANGED <<angle_mode_var, callVars, preVars>>
      [] OTHER -> PressInsert(label)

\* gh.py:208-220, for a character of allowed_chars
key_insert(ch) ==
    /\ ch \in allowed_chars
    /\ Len(expression) < MaxExprLen
    /\ expression' = Append(expression, ch)
    /\ dialog' = NoDialog
    /\ UNCHANGED <<ALLOWED_NAMES, history, history_listbox, angle_mode_var, callVars, preVars>>

\* gh.py:152-153, a radio button sets angle_mode_var
SelectAngle(mode) ==
    /\ angle_mode_var # mode
    /\ angle_mode_var' = mode
    /\ dialog' = NoDialog
    /\ UNCHANGED <<ALLOWED_NAMES, expression, history, history_listbox, callVars, preVars>>

\* gh.py:284-287, with the answer given to askyesno
clear_history(yes) ==
    /\ history' = IF yes THEN <<>> ELSE history
    /\ history_listbox' = IF yes THEN _refresh_history(history') ELSE history_listbox
    /\ dialog' = Dialog("askyesno", "Clear History", "Clear all history?", "")
    /\ UNCHANGED <<ALLOWED_NAMES, expression, angle_mode_var, callVars, preVars>>

\* text.split('=')[0]
BeforeEquals(text) ==
    LET at == {i \in 1..Len(text) : text[i] = "="}
    IN  IF at = {} THEN text
        ELSE SubSeq(text, 1, (CHOOSE i \in at : \A j \in at : i <= j) - 1)

\* gh.py:289-296; sel is the selected row of the listbox, 0 when there is none
on_history_double_click(sel) ==
    /\ expression' =
          IF sel # 0 /\ \E i \in 1..Len(history_listbox[sel]) : history_listbox[sel][i] = "="
          THEN Strip(BeforeEquals(history_listbox[sel]))
          ELSE expression
    /\ dialog' = NoDialog
    /\ UNCHANGED <<ALLOWED_NAMES, history, history_listbox, angle_mode_var, callVars, preVars>>

\* gh.py:298-303
use_selected_history(sel) ==
    IF sel = 0
    THEN /\ dialog' = Dialog("showinfo", "Use Selected", "No history item selected", "")
         /\ UNCHANGED <<ALLOWED_NAMES, expression, history, history_listbox, angle_mode_var,
                        callVars, preVars>>
    ELSE on_history_double_click(sel)

Next ==
    \/ \E label \in InsertLabels \cup {"C", Backspace, "="} : on_button(label)
    \/ \E ch \in Keys : key_insert(ch)
    \/ \E mode \in AngleModes : SelectAngle(mode)
    \/ \E yes \in BOOLEAN : clear_history(yes)
    \/ \E sel \in 0..Len(history_listbox) : on_history_double_click(sel)
    \/ \E sel \in 0..Len(history_listbox) : use_selected_history(sel)

Spec == Init /\ [][Next]_vars

(***************************************************************************)
(* Properties of safe_eval, checked under SpecEval.                        *)
(***************************************************************************)
\* the identifiers a node references: its free names and its attribute
\* names, at any depth, the bodies of lambdas included
RECURSIVE Referenced(_, _)
Referenced(node, bound) ==
    CASE node.k = "name" -> IF node.s \in bound THEN {} ELSE {node.s}
      [] node.k = "attr" -> Referenced(node.xs[1], bound) \cup {node.s}
      [] node.k = "lambda" ->
            Referenced(node.xs[1], bound \cup {node.xs[i].s : i \in 2..Len(node.xs)})
      [] OTHER -> UNION {Referenced(node.xs[i], bound) : i \in 1..Len(node.xs)}

\* the referenced identifiers that are neither keys of the evaluation
\* namespace nor permitted builtins
Disallowed == Referenced(code, {}) \ (DOMAIN local_names \cup safe_builtin_names)

\* C1: whenever the expression references an identifier, at any depth, that
\* is neither a key of the evaluation namespace nor abs or round, the call
\* fails with NameError raised by the check, and no such identifier has been
\* looked up.
C1_DisallowedNeverReached ==
    (pc = "done" /\ Disallowed # {}) =>
        /\ outcome.exc = "NameError"
        /\ outcome.by = "check"
        /\ trail.looked \cap Disallowed = {}

\* a division, floor division or remainder by the literal 0 somewhere in node
RECURSIVE HasZeroDivision(_)
HasZeroDivision(node) ==
    \/ /\ node.k = "bin"
       /\ node.s \in {"/", "//", "%"}
       /\ node.xs[2].k = "num"
       /\ node.xs[2].n = 0
    \/ \E i \in 1..Len(node.xs) : HasZeroDivision(node.xs[i])

\* C2: the check of the identifiers completes before any evaluation: an
\* expression holding both a disallowed identifier and a division by zero
\* ends in NameError raised by the check, with no node evaluated.
C2_CheckBeforeEvaluation ==
    (pc = "done" /\ Disallowed # {} /\ HasZeroDivision(code)) =>
        /\ outcome.exc = "NameError"
        /\ outcome.by = "check"
        /\ trail.steps = 0

\* a number written in the expression: a literal, or a literal with a sign
IsSignedLiteral(node) ==
    \/ node.k = "num"
    \/ node.k = "unary" /\ node.xs[1].k = "num"
SignedLiteral(node) ==
    IF node.k = "num" THEN Number(node.s = "int", node.n, node.d)
    ELSE Number(node.xs[1].s = "int",
                IF node.s = "-" THEN -node.xs[1].n ELSE node.xs[1].n, node.xs[1].d)

\* a call of abs or of round on one such number
IsBuiltinCall(node) ==
    /\ node.k = "call"
    /\ Len(node.xs) = 2
    /\ node.xs[1].k = "name"
    /\ node.xs[1].s \in safe_builtin_names
    /\ IsSignedLiteral(node.xs[2])

\* the integer nearest to n/d, the even one of two equally near
RoundHalfEven(n, d) ==
    LET q == n \div d
        r == n - q * d
    IN  IF 2 * r < d THEN q
        ELSE IF 2 * r > d THEN q + 1
        ELSE IF q % 2 = 0 THEN q ELSE q + 1

\* what Python's abs and round return on a number
BuiltinValue(name, v) ==
    IF name = "abs" THEN Number(v.t = "int", Abs(v.n), v.d)
    ELSE IntV(RoundHalfEven(v.n, v.d))

\* C3: a call of abs or round on a number passes the check and evaluates to
\* the absolute value or the rounded value.
C3_BuiltinsUsable ==
    (pc = "done" /\ IsBuiltinCall(code)) =>
        /\ outcome.exc = ""
        /\ outcome.val = BuiltinValue(code.xs[1].s, SignedLiteral(code.xs[2]))

FailureKinds ==
    {"SyntaxError", "NameError", "ZeroDivisionError", "ValueError", "OverflowError"}

\* C4: every call ends by returning a number or by raising one of the five
\* failure kinds.
C4_NumberOrFailureKind ==
    pc = "done" =>
        \/ outcome.exc = "" /\ IsNumber(outcome.val)
        \/ outcome.exc \in FailureKinds

OtherMode(mode) == IF mode = "rad" THEN "deg" ELSE "rad"

\* the keys at which two mappings differ
DiffKeys(m1, m2) ==
    {k \in DOMAIN m1 \cup DOMAIN m2 :
        k \notin DOMAIN m1 \/ k \notin DOMAIN m2 \/ m1[k] # m2[k]}

\* value or failure kind
Ending(o) == [exc |-> o.exc, val |-> o.val]

\* C7: the namespace of a call differs from ALLOWED_NAMES in exactly the six
\* trigonometric keys, and the evaluation of an expression that references
\* none of them ends the same way as it would in the other angle mode.
C7_AngleModeOnlyTrig ==
    [][(pc = "eval" /\ pc' = "done") =>
          /\ DiffKeys(local_names, ALLOWED_NAMES) = Trig
          /\ Referenced(code, {}) \cap Trig = {} =>
                Ending(outcome') =
                    Ending(EvalCode(code, Namespace(ALLOWED_NAMES, OtherMode(angle_mode)),
                                    ALLOWED_NAMES, OtherMode(angle_mode)))]_vars

\* C8: ALLOWED_NAMES is never changed, and every call ends as its arguments
\* alone decide, that is as the same call made right after import.
C8_CallsIndependent ==
    /\ ALLOWED_NAMES = AllowedNamesAtImport
    /\ pc = "done" => outcome = safe_eval(raw, angle_mode, AllowedNamesAtImport).outcome

(***************************************************************************)
(* Properties of the rewriting, checked under SpecPre.                     *)
(***************************************************************************)
\* C5: rewriting the output of the rewriting changes nothing.
C5_PreprocessIdempotent == stage = "twice" => recanonical = canonical

\* a text with a percent sign directly before a glyph has been rewritten twice
C5_Witness ==
    /\ stage = "twice"
    /\ raw = <<"1", "%", "π">>
    /\ canonical = <<"(", "1", "/", "1", "0", "0", ")", "p", "i">>
    /\ recanonical = canonical

IsDigits(t) == t # <<>> /\ \A i \in 1..Len(t) : t[i] \in Digit

\* digits, or digits "." digits: the literals of the two patterns
IsLiteral(t) ==
    \/ IsDigits(t)
    \/ \E k \in 2..(Len(t) - 1) :
          t[k] = "." /\ IsDigits(SubSeq(t, 1, k - 1)) /\ IsDigits(SubSeq(t, k + 1, Len(t)))

\* the decimal literals of Python: also digits "." and "." digits
IsNumericLiteral(t) ==
    \/ IsLiteral(t)
    \/ Len(t) > 1 /\ t[Len(t)] = "." /\ IsDigits(SubSeq(t, 1, Len(t) - 1))
    \/ Len(t) > 1 /\ t[1] = "." /\ IsDigits(SubSeq(t, 2, Len(t)))

Glyph == {"×", "÷", "^", "π"}

\* raw is a, then blanks, then a percent sign at p, and after it neither a
\* percent sign nor a glyph; a is raw[1..e]
PercentAt(e, p, blanks) ==
    /\ e < p
    /\ raw[p] = "%"
    /\ \A i \in (e + 1)..(p - 1) : raw[i] \in blanks
    /\ \A i \in (p + 1)..Len(raw) : raw[i] # "%" /\ raw[i] \notin Glyph

PercentOfText(e, q) ==
    <<"(">> \o SubSeq(raw, 1, e) \o <<"/", "1", "0", "0", ")", "*">> \o Slice(raw, q, Len(raw))
PercentAloneText(e, p) ==
    <<"(">> \o SubSeq(raw, 1, e) \o <<"/", "1", "0", "0", ")">> \o Slice(raw, p + 1, Len(raw))

\* What the two substitutions do: for a of the form digits or digits "."
\* digits, a with spaces or tabs around the percent sign and then a digit or
\* an opening parenthesis is rewritten to (a/100)* and what follows; any
\* other a with whitespace before the percent sign is rewritten to (a/100).
PercentRewriteAsCoded ==
    stage = "once" =>
        \A e \in 1..Len(raw), p \in 1..Len(raw) :
            (IsLiteral(SubSeq(raw, 1, e)) /\ PercentAt(e, p, Space)) =>
                LET q == Skip(raw, p + 1, HSpace)
                IN  IF /\ \A i \in (e + 1)..(p - 1) : raw[i] \in HSpace
                       /\ q <= Len(raw)
                       /\ (raw[q] \in Digit \/ raw[q] = "(")
                    THEN canonical = PercentOfText(e, q)
                    ELSE canonical = PercentAloneText(e, p)

\* C6: for all numeric literals a and b, a with whitespace around the
\* percent sign and then b or an opening parenthesis is rewritten to
\* (a/100)* and what follows, and any other a% to (a/100).
C6_PercentRewrite ==
    stage = "once" =>
        \A e \in 1..Len(raw), p \in 1..Len(raw) :
            (IsNumericLiteral(SubSeq(raw, 1, e)) /\ PercentAt(e, p, Space)) =>
                LET q == Skip(raw, p + 1, Space)
                IN  IF /\ q <= Len(raw)
                       /\ \/ raw[q] = "("
                          \/ \E f \in q..Len(raw) : IsNumericLiteral(SubSeq(raw, q, f))
                    THEN canonical = PercentOfText(e, q)
                    ELSE canonical = PercentAloneText(e, p)

(***************************************************************************)
(* Properties of the window, checked under Spec.                           *)
(***************************************************************************)
\* how safe_eval ends on the expression shown
Shown == safe_eval(Strip(expression), angle_mode_var, ALLOWED_NAMES).outcome

\* C9: "=" on a non-empty expression whose evaluation fails shows the
\* message of division by zero for a ZeroDivisionError and the generic
\* message with the detail for any other failure, and leaves the expression
\* and the history as they were.
C9_FailureClassified ==
    [][LET shown == Shown
       IN  (Strip(expression) # <<>> /\ shown.exc # "" /\ on_button("=")) =>
              /\ dialog'.kind = "showerror"
              /\ dialog'.title = "Error"
              /\ shown.exc = "ZeroDivisionError" =>
                    dialog'.text = "Division by zero is not allowed." /\ dialog'.detail = ""
              /\ shown.exc # "ZeroDivisionError" =>
                    dialog'.text = "Invalid expression:" /\ dialog'.detail = shown.msg
              /\ expression' = expression
              /\ history' = history
              /\ history_listbox' = history_listbox]_vars

\* "=" has failed on a division by zero while the history held an entry
C9_Witness ==
    /\ dialog.kind = "showerror"
    /\ dialog.text = "Division by zero is not allowed."
    /\ expression = <<"0", "÷", "0">>
    /\ history # <<>>

\* C10: a successful "=" puts one entry at the head of the history and keeps
\* the older entries in their order, a confirmed Clear History empties it,
\* and every other step (another button, a key, "=" on an empty expression,
\* a failed evaluation, a declined Clear History) leaves it as it was; the
\* listbox shows it.
C10_HistoryNewestFirst ==
    [][LET shown == Shown
           succeeded == Strip(expression) # <<>> /\ shown.exc = "" /\ on_button("=")
           cleared == clear_history(TRUE)
       IN  /\ succeeded =>
                 history' = <<Item(Strip(expression), Shape(shown.val))>> \o history
           /\ cleared => history' = <<>>
           /\ (~succeeded /\ ~cleared) => history' = history
           /\ history_listbox' = history']_vars

\* two successful "=" since the last clear: the newer entry is ahead
C10_Witness ==
    /\ Len(history) = 2
    /\ history[1] = <<"0", "0", " ", "=", " ", "0">>
    /\ history[2] = <<"0", " ", "=", " ", "0">>

====
